---------------------------- MODULE Spec2Model ----------------------------
(***************************************************************************)
(* A model of proxy/coco/src/state.rs: the State facade over the librad    *)
(* storage (identity documents, rad/self, tracking relation, references),  *)
(* the include file written by update_include, and the gossip calls.       *)
(* Every handler is one action; its result and its side effects (gossip    *)
(* queries, announcements, include writes) are recorded in `last`.         *)
(***************************************************************************)
EXTENDS Integers, FiniteSets, Sequences, TLC

\* ------------------------------------------------------------------ bounds
NumNames == 1
NumPeers == 2

\* The handles of the tests: "cloudhead" (1) and "kalt" (2).
Handles == {1, 2}
Names == 1..NumNames
RemotePeers == 1..NumPeers

\* ------------------------------------------------------------------ values
\* Urns are content-derived: the same handle (under the one signer key) or
\* the same (owner, name) always derives the same urn.
NoUrn == [k |-> "none", o |-> 0, n |-> 0]
UserUrn(h) == [k |-> "user", o |-> h, n |-> 0]
ProjectUrn(owner, name) == [k |-> "project", o |-> owner.o, n |-> name]

\* The peer id of this State (self.api.peer_id()); remote peers are 1..NumPeers.
LocalPeerId == 0
\* Option<PeerId>::None
NoPeer == 0 - 1
\* The identity a remote peer p claims in its rad/self.
PeerUser(p) == UserUrn(0 - p)
\* The project that only exists remotely until clone_project fetches it; it was
\* created by remote peer 1 (first key, only maintainer).
RemoteUrn == [k |-> "project", o |-> 0 - 1, n |-> 1]

UserUrns == {UserUrn(h) : h \in Handles}
LocalProjectUrns == {ProjectUrn(UserUrn(h), n) : h \in Handles, n \in Names}
ProjectUrns == LocalProjectUrns \cup {RemoteUrn}
AllUrns == UserUrns \cup ProjectUrns

NoRef == [urn |-> NoUrn, remote |-> NoPeer, name |-> ""]

NoErr == [kind |-> "none", urn |-> NoUrn, name |-> 0, ref |-> NoRef]
Err(kind) == [kind |-> kind, urn |-> NoUrn, name |-> 0, ref |-> NoRef]
AlreadyExists(urn) == [kind |-> "AlreadyExists", urn |-> urn, name |-> 0, ref |-> NoRef]
MissingRef(reference) ==
    [kind |-> "MissingRef", urn |-> NoUrn, name |-> 0, ref |-> reference]
NoDefaultBranch(name, urn) ==
    [kind |-> "NoDefaultBranch", urn |-> urn, name |-> name, ref |-> NoRef]

\* Result<NamespacedRef, Error>
OkRef(reference) == [ok |-> TRUE, ref |-> reference, err |-> NoErr]
ErrRef(e) == [ok |-> FALSE, ref |-> NoRef, err |-> e]

VARIABLES metadata, radSelf, defaultSelf, dirs, trackedRel, replicated, heads,
          include, created, last, calls, requests, registry

vars == <<metadata, radSelf, defaultSelf, dirs, trackedRel, replicated, heads,
          include, created, last, calls, requests, registry>>

\* ------------------------------------------------------------------ documents
UserDoc(h) ==
    [kind |-> "user", urn |-> UserUrn(h), name |-> h, owner |-> UserUrn(h),
     key |-> LocalPeerId, default_branch |-> ""]

\* project::Create::build(owner, signer.public_key()): the only key is the
\* local signer's, the only maintainer is the owner.
ProjectDoc(owner, name) ==
    [kind |-> "project", urn |-> ProjectUrn(owner, name), name |-> name,
     owner |-> owner, key |-> LocalPeerId, default_branch |-> "main"]

RemoteProjectDoc ==
    [kind |-> "project", urn |-> RemoteUrn, name |-> 1,
     owner |-> PeerUser(1), key |-> 1, default_branch |-> "main"]

StoredUrns == {d.urn : d \in metadata}
HasUrn(urn) == urn \in StoredUrns
Metadata(urn) == CHOOSE d \in metadata : d.urn = urn

NoFile == [exists |-> FALSE, peers |-> {}]
File(peers) == [exists |-> TRUE, peers |-> peers]

\* What a track call found before it ran: kept through the untrack that follows it.
NoSnap == [stage |-> 0, rel |-> {}, file |-> NoFile, expect |-> NoFile, fresh |-> FALSE]

\* The track / untrack calls that run at the same time on clones of the
\* State (it is Clone, and the http handlers share it): where each one is,
\* and the tracked peers its update_include has read.
Calls == {1, 2}

\* The init_user calls that run at the same time.
NumCalls == 3
UserCalls == 1..NumCalls
Idle == [op |-> "idle", pc |-> "idle", urn |-> NoUrn, peer |-> NoPeer, snap |-> NoFile, h |-> 0, err |-> NoErr]

\* The request the peer control holds for a urn, if any.
NoRequest == [urn |-> NoUrn, state |-> "none", timestamp |-> 0]

\* transport::register(): what the process has registered with git, and how
\* State::new changes it. The registration goes through a once-guard: the
\* first call registers the transport, later calls change nothing.
NoRegistry == [states |-> 0, calls |-> 0, registered |-> 0]

Register(registered) == IF registered = 0 THEN 1 ELSE registered

StateNewUnregistered(reg) ==
    [states |-> reg.states + 1, calls |-> reg.calls, registered |-> reg.registered]

\* State::new: registers the transport, then builds the State.
StateNew(reg) ==
    [states |-> reg.states + 1, calls |-> reg.calls + 1,
     registered |-> Register(reg.registered)]

\* project::checkout::Ownership, before checkout builds one.
NoOwnership == [kind |-> "none", handle |-> 0, remote |-> NoPeer, local |-> NoPeer]

NoCall ==
    [op |-> "none", h |-> 0, urn |-> NoUrn, peer |-> NoPeer, create |-> "",
     fault |-> "none", ok |-> FALSE, fatal |-> FALSE, err |-> NoErr,
     flag |-> FALSE, urns |-> {}, ref |-> NoRef, existed |-> FALSE,
     queries |-> 0, rebuilds |-> 0, writes |-> 0, announces |-> 0, pre |-> NoSnap,
     owner |-> ErrRef(NoErr), first |-> ErrRef(NoErr), name |-> "",
     seq |-> <<>>, bad |-> {}, at |-> "", steps |-> <<>>,
     ownership |-> NoOwnership, status |-> 0, body |-> NoRequest, list |-> {}]

\* The process before any State is constructed: an empty store, no request,
\* no transport registered.
Fresh ==
    /\ metadata = {}
    /\ radSelf = [u \in AllUrns |-> NoUrn]
    /\ defaultSelf = NoUrn
    /\ dirs = {}
    /\ trackedRel = {}
    /\ replicated = {}
    /\ heads = {}
    /\ include = [u \in ProjectUrns |-> NoFile]
    /\ created = {}
    /\ last = NoCall
    /\ calls = [c \in Calls \cup UserCalls |-> Idle]
    /\ requests = [u \in ProjectUrns |-> NoRequest]

InitProcess == Fresh /\ registry = NoRegistry

\* The process once State::new has built the State the calls are made on.
Init == Fresh /\ registry = StateNew(NoRegistry)

\* ------------------------------------------------------------------ storage
\* storage.create_repo(&meta): refuses a urn the store already holds.
CreateRepoNoCheck(doc) == NoErr
CreateRepo(doc) == IF HasUrn(doc.urn) THEN AlreadyExists(doc.urn) ELSE NoErr

\* repo.tracked(): the tracked peer ids of a project, in the store's order.
TrackedPeers(urn) == {p \in RemotePeers : <<urn, p>> \in trackedRel}

RECURSIVE SetToSeq(_)
SetToSeq(S) ==
    IF S = {} THEN <<>>
    ELSE LET m == CHOOSE x \in S : \A y \in S : x <= y
         IN <<m>> \o SetToSeq(S \ {m})

\* State::tracked, the body of the with_storage closure: one Remote entry per
\* tracked peer; Replicated iff the peer's rad/self ref exists.
RemoteStatus(urn, p, rel, repl) ==
    IF <<urn, p>> \in repl
    THEN [replicated |-> TRUE,
          role |-> IF PeerUser(p) = Metadata(urn).owner
                   THEN "Maintainer" ELSE "Contributor",
          user |-> PeerUser(p)]
    ELSE [replicated |-> FALSE, role |-> "", user |-> NoUrn]

TrackedIn(urn, rel, repl) ==
    LET ps == SetToSeq({p \in RemotePeers : <<urn, p>> \in rel})
    IN [i \in 1..Len(ps) |->
          [peer_id |-> ps[i], status |-> RemoteStatus(urn, ps[i], rel, repl)]]

\* State::update_include: the include file is rebuilt from tracked(urn), keeping
\* the replicated remotes only (Peer::replicated_remote).
IncludeAllTracked(urn, rel, repl) ==
    LET t == TrackedIn(urn, rel, repl)
    IN File({t[i].peer_id : i \in 1..Len(t)})

IncludeContent(urn, rel, repl) ==
    LET t == TrackedIn(urn, rel, repl)
    IN File({t[i].peer_id : i \in {j \in 1..Len(t) : t[j].status.replicated}})

\* ------------------------------------------------------------------ identities
IdentityFaults == {"none", "sign", "storage"}
OwnerFaults == IdentityFaults \cup {"verify", "set_owner"}

\* State::init_user: create, sign, then storage.create_repo(&user). A stored
\* user is its own rad/self, so list_projects meets it behind its owner filter.
InitUserErr(h, fault) ==
    IF fault = "sign" THEN Err("Sign")
    ELSE IF fault = "storage" THEN Err("Storage")
    ELSE CreateRepo(UserDoc(h))

InitUser(h, fault) ==
    LET e == InitUserErr(h, fault)
    IN /\ metadata' = IF e = NoErr THEN metadata \cup {UserDoc(h)} ELSE metadata
       /\ radSelf' = IF e = NoErr
                     THEN [radSelf EXCEPT ![UserUrn(h)] = UserUrn(h)] ELSE radSelf
       /\ last' = [NoCall EXCEPT !.op = "init_user", !.h = h, !.fault = fault,
                                 !.urn = IF e = NoErr THEN UserUrn(h) ELSE NoUrn,
                                 !.ok = (e = NoErr), !.err = e,
                                 !.existed = HasUrn(UserUrn(h))]
       /\ UNCHANGED <<defaultSelf, dirs, trackedRel, replicated, heads, include, created, calls, requests, registry>>

\* State::init_owner: init_user, verify_user, set_default_owner.
InitOwner(h, fault) ==
    LET e0 == InitUserErr(h, fault)
        e == IF e0 # NoErr THEN e0
             ELSE IF fault = "verify" THEN Err("Verification")
             ELSE IF fault = "set_owner" THEN Err("Storage")
             ELSE NoErr
    IN /\ metadata' = IF e0 = NoErr THEN metadata \cup {UserDoc(h)} ELSE metadata
       /\ radSelf' = IF e0 = NoErr
                     THEN [radSelf EXCEPT ![UserUrn(h)] = UserUrn(h)] ELSE radSelf
       /\ defaultSelf' = IF e = NoErr THEN UserUrn(h) ELSE defaultSelf
       /\ last' = [NoCall EXCEPT !.op = "init_owner", !.h = h, !.fault = fault,
                                 !.urn = IF e = NoErr THEN UserUrn(h) ELSE NoUrn,
                                 !.ok = (e = NoErr), !.err = e,
                                 !.existed = HasUrn(UserUrn(h))]
       /\ UNCHANGED <<dirs, trackedRel, replicated, heads, include, created, calls, requests, registry>>

\* ------------------------------------------------------------------ projects
Creates == {[kind |-> k, name |-> n] : k \in {"New", "Existing"}, n \in Names}
ProjectFaults ==
    {"none", "sign", "storage", "setup", "transport_err", "transport_panic",
     "timeout", "include", "set_include"}

\* project::Create::validate(url): a New repository needs a free directory,
\* an Existing one needs the directory to be there.
Validate(create) ==
    IF create.kind = "New"
    THEN (IF create.name \in dirs THEN Err("Validation") ELSE NoErr)
    ELSE (IF create.name \in dirs THEN NoErr ELSE Err("Validation"))

\* The steps of a call that completed when it stopped at `at` ("done": all).
Completed(steps, at) ==
    IF at = "done" THEN steps
    ELSE SubSeq(steps, 1, (CHOOSE i \in 1..Len(steps) : steps[i] = at) - 1)

\* What the wait for the transport results can meet.
TransportFaults == {"timeout", "transport_err", "transport_panic"}

\* State::process_transport_results: a panicked task is fatal (expect), the
\* error of a task that ended with one is returned (the ? operator), and the
\* timeout is only logged.
ProcessTransportResultsTimeoutErr(fault) ==
    IF fault = "transport_panic" THEN Err("Fatal")
    ELSE IF fault \in {"transport_err", "timeout"} THEN Err("Transport")
    ELSE NoErr

ProcessTransportResultsAllFatal(fault) ==
    IF fault \in {"transport_panic", "transport_err"} THEN Err("Fatal")
    ELSE NoErr

ProcessTransportResults(fault) ==
    IF fault = "transport_panic" THEN Err("Fatal")
    ELSE IF fault = "transport_err" THEN Err("Transport")
    ELSE NoErr

\* State::init_project, up to the step that fails (or "done"):
\* build+sign, validate, create_repo, setup_repo, process_transport_results,
\* update_include, set_include_path, announce.
InitProjectErrValidateLast(owner, create, fault) ==
    LET doc == ProjectDoc(owner, create.name)
    IN IF fault = "sign" THEN [at |-> "sign", err |-> Err("Sign")]
       ELSE IF fault = "storage" THEN [at |-> "create_repo", err |-> Err("Storage")]
       ELSE IF CreateRepo(doc) # NoErr
            THEN [at |-> "create_repo", err |-> CreateRepo(doc)]
       ELSE IF Validate(create) # NoErr
            THEN [at |-> "validate", err |-> Validate(create)]
       ELSE IF fault = "setup" THEN [at |-> "setup_repo", err |-> Err("Create")]
       ELSE IF ProcessTransportResults(fault) # NoErr
            THEN [at |-> "transport", err |-> ProcessTransportResults(fault)]
       ELSE IF fault = "include" THEN [at |-> "update_include", err |-> Err("Include")]
       ELSE IF fault = "set_include"
            THEN [at |-> "set_include_path", err |-> Err("Include")]
       ELSE [at |-> "done", err |-> NoErr]

InitProjectErr(owner, create, fault) ==
    LET doc == ProjectDoc(owner, create.name)
    IN IF fault = "sign" THEN [at |-> "sign", err |-> Err("Sign")]
       ELSE IF Validate(create) # NoErr
            THEN [at |-> "validate", err |-> Validate(create)]
       ELSE IF fault = "storage" THEN [at |-> "create_repo", err |-> Err("Storage")]
       ELSE IF CreateRepo(doc) # NoErr
            THEN [at |-> "create_repo", err |-> CreateRepo(doc)]
       ELSE IF fault = "setup" THEN [at |-> "setup_repo", err |-> Err("Create")]
       ELSE IF ProcessTransportResults(fault) # NoErr
            THEN [at |-> "transport", err |-> ProcessTransportResults(fault)]
       ELSE IF fault = "include" THEN [at |-> "update_include", err |-> Err("Include")]
       ELSE IF fault = "set_include"
            THEN [at |-> "set_include_path", err |-> Err("Include")]
       ELSE [at |-> "done", err |-> NoErr]

InitProjectSteps ==
    <<"sign", "validate", "create_repo", "setup_repo", "transport",
      "update_include", "set_include_path", "announce">>

\* The steps of init_project that have completed when it stops at `at`.
Persisted(at) == at \in {"setup_repo", "transport", "update_include",
                         "set_include_path", "done"}
RepoSetUp(at) == at \in {"transport", "update_include", "set_include_path", "done"}
IncludeTried(at) == at \in {"update_include", "set_include_path", "done"}
IncludeSaved(at) == at \in {"set_include_path", "done"}
AnnouncedAlways(at) == TRUE
Announced(at) == at = "done"

InitProject(owner, create, fault) ==
    LET doc == ProjectDoc(owner, create.name)
        r == InitProjectErr(owner, create, fault)
    IN /\ owner \in StoredUrns
       /\ metadata' = IF Persisted(r.at) THEN metadata \cup {doc} ELSE metadata
       \* create_repo makes the signing owner the project's rad/self
       /\ radSelf' = IF Persisted(r.at)
                     THEN [radSelf EXCEPT ![doc.urn] = owner] ELSE radSelf
       /\ dirs' = IF RepoSetUp(r.at) THEN dirs \cup {create.name} ELSE dirs
       /\ include' = IF IncludeSaved(r.at)
                     THEN [include EXCEPT ![doc.urn] =
                             IncludeContent(doc.urn, trackedRel, replicated)]
                     ELSE include
       \* the urns init_project has returned Ok(meta) for
       /\ created' = IF r.err = NoErr THEN created \cup {doc.urn} ELSE created
       /\ last' = [NoCall EXCEPT !.op = "init_project", !.h = owner.o,
                                 !.create = create.kind, !.fault = fault,
                                 !.urn = doc.urn,
                                 !.ok = (r.err = NoErr),
                                 !.fatal = (r.err = Err("Fatal")),
                                 !.err = r.err,
                                 !.existed = HasUrn(doc.urn),
                                 !.at = r.at,
                                 !.steps = Completed(InitProjectSteps, r.at),
                                 !.rebuilds = IF IncludeTried(r.at) THEN 1 ELSE 0,
                                 !.writes = IF IncludeSaved(r.at) THEN 1 ELSE 0,
                                 !.announces = IF Announced(r.at) THEN 1 ELSE 0]
       /\ UNCHANGED <<defaultSelf, trackedRel, replicated, heads, calls, requests, registry>>

\* State::list_projects: the entities whose rad/self is the default owner,
\* projects only (try_map on EntityInfo::Project).
OwnedAll(owner) == {d \in metadata : TRUE}
Owned(owner) == {d \in metadata : radSelf[d.urn] # NoUrn /\ radSelf[d.urn] = owner}
ProjectsOnly(ds) == {d \in ds : d.kind = "project"}

\* The entries storage.all_metadata() yields as Ok when the entries of `bad`
\* cannot be read.
Readable(ds, bad) == {d \in ds : d.urn \notin bad}

ListProjects(fault, bad) ==
    LET e == IF fault = "storage" \/ defaultSelf = NoUrn THEN Err("Storage") ELSE NoErr
    IN /\ last' = [NoCall EXCEPT !.op = "list_projects", !.fault = fault,
                                 !.bad = bad,
                                 !.ok = (e = NoErr), !.err = e,
                                 !.urns = IF e = NoErr
                                          THEN {d.urn : d \in ProjectsOnly(
                                                  Owned(defaultSelf) \cap Readable(metadata, bad))}
                                          ELSE {}]
       /\ UNCHANGED <<metadata, radSelf, defaultSelf, dirs, trackedRel, replicated,
                      heads, include, created, calls, requests, registry>>

\* State::list_users: the loop returns the error of the first entry that
\* cannot be read (entity?); otherwise the users among the entries.
UsersOnly(ds) == {d \in ds : d.kind = "user"}

ListUsersErr(fault, bad) ==
    IF fault = "storage" THEN Err("Storage")
    ELSE IF Readable(metadata, bad) # metadata THEN Err("Storage(entry)")
    ELSE NoErr

ListUsers(fault, bad) ==
    LET e == ListUsersErr(fault, bad)
    IN /\ last' = [NoCall EXCEPT !.op = "list_users", !.fault = fault, !.bad = bad,
                                 !.ok = (e = NoErr), !.err = e,
                                 !.urns = IF e = NoErr
                                          THEN {d.urn : d \in UsersOnly(metadata)}
                                          ELSE {}]
       /\ UNCHANGED <<metadata, radSelf, defaultSelf, dirs, trackedRel, replicated,
                      heads, include, created, calls, requests, registry>>

\* ------------------------------------------------------------------ replication
CloneFaults == {"none", "clone", "rad_self"}

\* State::clone_project: storage.clone_repo(url) fetches the project from the
\* url's peer (peer 1, the project's first key), whose refs become a tracked
\* remote; then repo.set_rad_self(Default), which needs a default rad/self.
CloneProjectErr(fault) ==
    IF fault = "clone" THEN [at |-> "clone_repo", err |-> Err("Storage")]
    ELSE IF CreateRepo(RemoteProjectDoc) # NoErr
         THEN [at |-> "clone_repo", err |-> CreateRepo(RemoteProjectDoc)]
    ELSE IF fault = "rad_self" \/ defaultSelf = NoUrn
         THEN [at |-> "set_rad_self", err |-> Err("Storage")]
    ELSE [at |-> "done", err |-> NoErr]

CloneProject(withHead, fault) ==
    LET r == CloneProjectErr(fault)
        cloned == r.at # "clone_repo"
    IN /\ metadata' = IF cloned THEN metadata \cup {RemoteProjectDoc} ELSE metadata
       /\ trackedRel' = IF cloned THEN trackedRel \cup {<<RemoteUrn, 1>>} ELSE trackedRel
       /\ replicated' = IF cloned THEN replicated \cup {<<RemoteUrn, 1>>} ELSE replicated
       /\ heads' = IF cloned /\ withHead
                   THEN heads \cup {[urn |-> RemoteUrn, remote |-> 1, name |-> "main"]}
                   ELSE heads
       /\ radSelf' = IF r.at = "done"
                     THEN [radSelf EXCEPT ![RemoteUrn] = defaultSelf] ELSE radSelf
       /\ last' = [NoCall EXCEPT !.op = "clone_project", !.fault = fault,
                                 !.urn = RemoteUrn, !.peer = 1,
                                 !.ok = (r.err = NoErr), !.err = r.err,
                                 !.existed = HasUrn(RemoteUrn)]
       /\ UNCHANGED <<defaultSelf, dirs, include, created, calls, requests, registry>>

\* State::fetch: storage.fetch_repo(url) brings the refs of the url's peer for
\* a project the store knows; nothing else is touched.
FetchRepoTracks(urn, peer) == trackedRel \cup {<<urn, peer>>}
FetchRepoTracking(urn, peer) == trackedRel

Fetch(urn, peer, withHead, fault) ==
    LET e == IF fault = "storage" \/ ~HasUrn(urn) THEN Err("Storage") ELSE NoErr
    IN /\ replicated' = IF e = NoErr THEN replicated \cup {<<urn, peer>>} ELSE replicated
       /\ trackedRel' = IF e = NoErr THEN FetchRepoTracking(urn, peer) ELSE trackedRel
       /\ heads' = IF e = NoErr /\ withHead
                   THEN heads \cup {[urn |-> urn, remote |-> peer,
                                     name |-> Metadata(urn).default_branch]}
                   ELSE heads
       /\ last' = [NoCall EXCEPT !.op = "fetch", !.fault = fault, !.urn = urn,
                                 !.peer = peer, !.ok = (e = NoErr), !.err = e]
       /\ UNCHANGED <<metadata, radSelf, defaultSelf, dirs, include, created, calls, requests, registry>>

\* ------------------------------------------------------------------ tracking
TrackFaults == {"none", "storage", "include"}

\* State::update_include, after the relation has become `rel`: tracked(urn)
\* resolves the project first, then the file is built and saved.
UpdateIncludeErr(urn, fault) ==
    IF ~HasUrn(urn) THEN [at |-> "tracked", err |-> Err("Storage")]
    ELSE IF fault = "include" THEN [at |-> "save", err |-> Err("Include")]
    ELSE [at |-> "done", err |-> NoErr]

\* State::track: storage.track, gossip::query, update_include.
TrackStepsQueryFirst == <<"query", "track", "update_include">>
TrackSteps == <<"track", "query", "update_include">>

TrackErrSkipTracked(urn, peer, fault) ==
    IF fault = "storage" THEN [at |-> "track", err |-> Err("Storage")]
    ELSE IF <<urn, peer>> \in trackedRel THEN [at |-> "skipped", err |-> NoErr]
    ELSE UpdateIncludeErr(urn, fault)

TrackErr(urn, peer, fault) ==
    IF fault = "storage" THEN [at |-> "track", err |-> Err("Storage")]
    ELSE UpdateIncludeErr(urn, fault)

\* The tracking relation track leaves when it stops at `at`: storage.track
\* has recorded the pair unless it is the step that failed.
TrackedAfterRollback(urn, peer, at) ==
    IF at = "done" THEN trackedRel \cup {<<urn, peer>>} ELSE trackedRel
TrackedAfter(urn, peer, at) ==
    IF at = "track" THEN trackedRel ELSE trackedRel \cup {<<urn, peer>>}

Track(urn, peer, fault) ==
    LET r == TrackErr(urn, peer, fault)
        rel == TrackedAfter(urn, peer, r.at)
        ran == r.at \in {"tracked", "save", "done"}
    IN /\ trackedRel' = rel
       /\ include' = IF r.at = "done"
                     THEN [include EXCEPT ![urn] = IncludeContent(urn, rel, replicated)]
                     ELSE include
       /\ last' = [NoCall EXCEPT !.op = "track", !.fault = fault, !.urn = urn,
                                 !.peer = peer, !.ok = (r.err = NoErr), !.err = r.err,
                                 !.existed = (<<urn, peer>> \in trackedRel),
                                 !.at = r.at,
                                 !.steps = IF r.at = "track" THEN <<>>
                                           ELSE IF r.at = "done" THEN TrackSteps
                                           ELSE SubSeq(TrackSteps, 1, 2),
                                 !.queries = IF ran THEN 1 ELSE 0,
                                 !.rebuilds = IF ran THEN 1 ELSE 0,
                                 !.writes = IF r.at = "done" THEN 1 ELSE 0,
                                 !.pre = [stage |-> 1, rel |-> trackedRel,
                                          file |-> include[urn],
                                          expect |-> IF HasUrn(urn)
                                                     THEN IncludeContent(urn, trackedRel, replicated)
                                                     ELSE NoFile,
                                          fresh |-> (<<urn, peer>> \notin trackedRel)]]
       /\ UNCHANGED <<metadata, radSelf, defaultSelf, dirs, replicated, heads, created, calls, requests, registry>>

\* State::untrack: storage.untrack says whether the pair was tracked; the
\* include file is rebuilt only if it was.
NeedsUpdateAlways(res) == TRUE
NeedsUpdateNever(res) == FALSE
NeedsUpdate(res) == res

\* The include file untrack saves: built after storage.untrack removed the pair.
UntrackIncludeStale(urn, peer) == IncludeContent(urn, trackedRel, replicated)
UntrackInclude(urn, peer) ==
    IncludeContent(urn, trackedRel \ {<<urn, peer>>}, replicated)

Untrack(urn, peer, fault) ==
    LET res == <<urn, peer>> \in trackedRel
        rel == IF fault = "storage" THEN trackedRel ELSE trackedRel \ {<<urn, peer>>}
        r == IF fault = "storage" THEN [at |-> "untrack", err |-> Err("Storage")]
             ELSE IF NeedsUpdate(res) THEN UpdateIncludeErr(urn, fault)
             ELSE [at |-> "no_update", err |-> NoErr]
    IN /\ trackedRel' = rel
       /\ include' = IF r.at = "done"
                     THEN [include EXCEPT ![urn] = UntrackInclude(urn, peer)]
                     ELSE include
       /\ last' = [NoCall EXCEPT !.op = "untrack", !.fault = fault, !.urn = urn,
                                 !.peer = peer, !.ok = (r.err = NoErr), !.err = r.err,
                                 !.flag = (r.err = NoErr /\ res),
                                 !.existed = res,
                                 !.rebuilds = IF r.at \in {"tracked", "save", "done"}
                                              THEN 1 ELSE 0,
                                 !.writes = IF r.at = "done" THEN 1 ELSE 0,
                                 !.pre = IF last.op = "track" /\ last.ok
                                            /\ last.urn = urn /\ last.peer = peer
                                         THEN [last.pre EXCEPT !.stage = 2]
                                         ELSE NoSnap]
       /\ UNCHANGED <<metadata, radSelf, defaultSelf, dirs, replicated, heads, created, calls, requests, registry>>

\* State::checkout: get_project(urn, peer_id), update_include, the remote's
\* handle from its rad/self, then the blocking checkout.run and the wait for
\* the transport results.
CheckoutFaults == {"none", "include", "checkout"}
AllCheckoutFaults == CheckoutFaults \cup {"rad_self", "run_panic"} \cup TransportFaults

\* Ownership::Local(self.peer_id()) for no peer; Ownership::Remote with the
\* handle read from the remote's rad/self for a peer.
OwnershipLocal(peer) ==
    [kind |-> "Local", handle |-> 0, remote |-> NoPeer, local |-> LocalPeerId]
Ownership(peer) ==
    IF peer = NoPeer
    THEN [kind |-> "Local", handle |-> 0, remote |-> NoPeer, local |-> LocalPeerId]
    ELSE [kind |-> "Remote", handle |-> PeerUser(peer).o, remote |-> peer,
          local |-> LocalPeerId]

CheckoutSteps == <<"get_project", "update_include", "ownership", "run", "transport">>

CheckoutErr(urn, peer, fault) ==
    IF ~HasUrn(urn) \/ (peer # NoPeer /\ <<urn, peer>> \notin replicated)
    THEN [at |-> "get_project", err |-> Err("Storage")]
    ELSE IF UpdateIncludeErr(urn, fault).err # NoErr
         THEN [at |-> "update_include", err |-> UpdateIncludeErr(urn, fault).err]
    ELSE IF peer # NoPeer /\ fault = "rad_self"
         THEN [at |-> "ownership", err |-> Err("Storage")]
    ELSE IF fault = "run_panic" THEN [at |-> "run", err |-> Err("Fatal")]
    ELSE IF fault = "checkout" THEN [at |-> "run", err |-> Err("Checkout")]
    ELSE IF ProcessTransportResults(fault) # NoErr
         THEN [at |-> "transport", err |-> ProcessTransportResults(fault)]
    ELSE [at |-> "done", err |-> NoErr]

Checkout(urn, peer, fault) ==
    LET r == CheckoutErr(urn, peer, fault)
        saved == r.at \in {"ownership", "run", "transport", "done"}
    IN /\ include' = IF saved
                     THEN [include EXCEPT ![urn] =
                             IncludeContent(urn, trackedRel, replicated)]
                     ELSE include
       /\ last' = [NoCall EXCEPT !.op = "checkout", !.fault = fault, !.urn = urn,
                                 !.peer = peer, !.ok = (r.err = NoErr), !.err = r.err,
                                 !.fatal = (r.err = Err("Fatal")),
                                 !.existed = HasUrn(urn),
                                 !.at = r.at,
                                 !.steps = Completed(CheckoutSteps, r.at),
                                 !.ownership = IF r.at \in {"run", "transport", "done"}
                                               THEN Ownership(peer) ELSE NoOwnership,
                                 !.rebuilds = IF r.at = "get_project" THEN 0 ELSE 1,
                                 !.writes = IF saved THEN 1 ELSE 0]
       /\ UNCHANGED <<metadata, radSelf, defaultSelf, dirs, trackedRel, replicated,
                      heads, created, calls, requests, registry>>

\* The project the tracking operations are exercised on: unknown to the store
\* until clone_project brings it, without any include file.
TrackUrns == {RemoteUrn}

NextTrack ==
    \/ InitOwner(1, "none")
    \/ \E f \in CloneFaults : CloneProject(FALSE, f)
    \/ \E u \in TrackUrns, p \in RemotePeers, f \in {"none", "storage"} :
          Fetch(u, p, FALSE, f)
    \/ \E u \in TrackUrns, p \in RemotePeers, f \in TrackFaults : Track(u, p, f)
    \/ \E u \in TrackUrns, p \in RemotePeers, f \in TrackFaults : Untrack(u, p, f)
    \/ \E u \in TrackUrns, f \in CheckoutFaults : Checkout(u, NoPeer, f)

SpecTrack == Init /\ [][NextTrack]_vars

\* The operations that touch the include file, one after the other, with the
\* signer, the store and the file system working.
NextInclude ==
    \/ InitOwner(1, "none")
    \/ InitProject(UserUrn(1), [kind |-> "New", name |-> 1], "none")
    \/ CloneProject(FALSE, "none")
    \/ \E u \in TrackUrns, p \in RemotePeers : Fetch(u, p, FALSE, "none")
    \/ \E u \in TrackUrns, p \in RemotePeers : Track(u, p, "none")
    \/ \E u \in TrackUrns, p \in RemotePeers : Untrack(u, p, "none")
    \/ \E u \in TrackUrns, p \in {NoPeer} \cup RemotePeers : Checkout(u, p, "none")

SpecInclude == Init /\ [][NextInclude]_vars

\* ------------------------------------------------------------------ steps
\* init_project, checkout and track with each of the failures a step of
\* theirs can meet, on a project created here and on the cloned one.
StepUrns == {ProjectUrn(UserUrn(1), 1), RemoteUrn}

NextSteps ==
    \/ InitOwner(1, "none")
    \/ \E c \in Creates, f \in ProjectFaults : InitProject(UserUrn(1), c, f)
    \/ CloneProject(FALSE, "none")
    \/ \E f \in TrackFaults : Track(RemoteUrn, 1, f)
    \/ \E u \in StepUrns, p \in {NoPeer, 1}, f \in AllCheckoutFaults : Checkout(u, p, f)

SpecSteps == Init /\ [][NextSteps]_vars

\* ------------------------------------------------------------------ concurrent calls
\* track and untrack step by step. Each with_storage closure is atomic (the
\* store is behind a lock), but update_include reads tracked(urn) in one
\* closure and saves the file afterwards, outside of it.
Step(c, op) == [NoCall EXCEPT !.op = op, !.h = c, !.urn = calls[c].urn,
                              !.peer = calls[c].peer]

\* track: storage.track(&urn, &remote), then the gossip query.
TrackStorage(c, urn, peer) ==
    /\ calls[c] = Idle
    /\ trackedRel' = trackedRel \cup {<<urn, peer>>}
    /\ calls' = [calls EXCEPT ![c] = [op |-> "track", pc |-> "read", urn |-> urn,
                                      peer |-> peer, snap |-> NoFile, h |-> 0, err |-> NoErr]]
    /\ last' = [NoCall EXCEPT !.op = "storage.track", !.h = c, !.urn = urn,
                              !.peer = peer, !.queries = 1]
    /\ UNCHANGED <<metadata, radSelf, defaultSelf, dirs, replicated, heads, include,
                   created, requests, registry>>

\* untrack: storage.untrack(&urn, &remote); Ok(false) ends the call.
UntrackStorage(c, urn, peer) ==
    LET res == <<urn, peer>> \in trackedRel
    IN /\ calls[c] = Idle
       /\ trackedRel' = trackedRel \ {<<urn, peer>>}
       /\ calls' = [calls EXCEPT ![c] =
                      IF NeedsUpdate(res)
                      THEN [op |-> "untrack", pc |-> "read", urn |-> urn,
                            peer |-> peer, snap |-> NoFile, h |-> 0, err |-> NoErr]
                      ELSE Idle]
       /\ last' = [NoCall EXCEPT !.op = "storage.untrack", !.h = c, !.urn = urn,
                                 !.peer = peer, !.flag = res]
       /\ UNCHANGED <<metadata, radSelf, defaultSelf, dirs, replicated, heads,
                      include, created, requests, registry>>

\* update_include, first half: self.tracked(urn) and Include::from_tracked_users.
ReadTracked(c) ==
    /\ calls[c].pc = "read"
    /\ calls' = [calls EXCEPT ![c] =
                   IF HasUrn(calls[c].urn)
                   THEN [calls[c] EXCEPT !.pc = "save",
                            !.snap = IncludeContent(calls[c].urn, trackedRel, replicated)]
                   ELSE Idle]
    /\ last' = [Step(c, "update_include.tracked") EXCEPT !.ok = HasUrn(calls[c].urn),
                                                         !.rebuilds = 1]
    /\ UNCHANGED <<metadata, radSelf, defaultSelf, dirs, trackedRel, replicated, heads,
                   include, created, requests, registry>>

\* update_include, second half: include.save(), and the call returns.
SaveInclude(c) ==
    /\ calls[c].pc = "save"
    /\ include' = [include EXCEPT ![calls[c].urn] = calls[c].snap]
    /\ calls' = [calls EXCEPT ![c] = Idle]
    /\ last' = [Step(c, "update_include.save") EXCEPT !.ok = TRUE, !.writes = 1]
    /\ UNCHANGED <<metadata, radSelf, defaultSelf, dirs, trackedRel, replicated, heads,
                   created, requests, registry>>

Quiet == \A c \in Calls : calls[c] = Idle

\* The project is cloned and its peers are fetched before the calls start;
\* then only track and untrack calls run, in any interleaving.
NextRace ==
    \/ Quiet /\ ~include[RemoteUrn].exists /\ CloneProject(FALSE, "none")
    \/ \E p \in RemotePeers :
          Quiet /\ ~include[RemoteUrn].exists /\ Fetch(RemoteUrn, p, FALSE, "none")
    \/ \E c \in Calls, p \in RemotePeers : TrackStorage(c, RemoteUrn, p)
    \/ \E c \in Calls, p \in RemotePeers : UntrackStorage(c, RemoteUrn, p)
    \/ \E c \in Calls : ReadTracked(c)
    \/ \E c \in Calls : SaveInclude(c)

SpecRace == Init /\ [][NextRace]_vars

\* ------------------------------------------------------------------ concurrent init_user
\* init_user step by step: User::create and sign_owned work on the call's own
\* document; the store is only touched in the one with_storage closure, where
\* create_repo both looks the urn up and writes the document.
UserCall(h, pc, e) ==
    [op |-> "init_user", pc |-> pc, urn |-> UserUrn(h), peer |-> NoPeer,
     snap |-> NoFile, h |-> h, err |-> e]

CreateUserRepoOverwrite(h) == NoErr
CreateUserRepo(h) == CreateRepo(UserDoc(h))

\* user::User::create(handle, self.signer.public_key().into())
UserCreate(c, h) ==
    /\ calls[c] = Idle
    /\ calls' = [calls EXCEPT ![c] = UserCall(h, "sign", NoErr)]
    /\ last' = [NoCall EXCEPT !.op = "init_user.create", !.h = h, !.ok = TRUE]
    /\ UNCHANGED <<metadata, radSelf, defaultSelf, dirs, trackedRel, replicated, heads,
                   include, created, requests, registry>>

\* user.sign_owned(&self.signer)?
UserSign(c, fault) ==
    LET e == IF fault = "sign" THEN Err("Sign") ELSE NoErr
    IN /\ calls[c].op = "init_user" /\ calls[c].pc = "sign"
       /\ calls' = [calls EXCEPT ![c] =
                      UserCall(calls[c].h, IF e = NoErr THEN "storage" ELSE "returned", e)]
       /\ last' = [NoCall EXCEPT !.op = "init_user.sign", !.h = calls[c].h,
                                 !.fault = fault, !.ok = (e = NoErr), !.err = e]
       /\ UNCHANGED <<metadata, radSelf, defaultSelf, dirs, trackedRel, replicated,
                      heads, include, created, requests, registry>>

\* with_storage(|storage| storage.create_repo(&user)), and the call returns.
UserStorage(c) ==
    LET h == calls[c].h
        e == CreateUserRepo(h)
    IN /\ calls[c].op = "init_user" /\ calls[c].pc = "storage"
       /\ metadata' = IF e = NoErr THEN metadata \cup {UserDoc(h)} ELSE metadata
       /\ radSelf' = IF e = NoErr
                     THEN [radSelf EXCEPT ![UserUrn(h)] = UserUrn(h)] ELSE radSelf
       /\ calls' = [calls EXCEPT ![c] = UserCall(h, "returned", e)]
       /\ last' = [NoCall EXCEPT !.op = "init_user", !.h = h,
                                 !.urn = IF e = NoErr THEN UserUrn(h) ELSE NoUrn,
                                 !.ok = (e = NoErr), !.err = e,
                                 !.existed = HasUrn(UserUrn(h))]
       /\ UNCHANGED <<defaultSelf, dirs, trackedRel, replicated, heads, include,
                      created, requests, registry>>

\* Every call is made once; the calls interleave freely.
NextUsers ==
    \/ \E c \in UserCalls, h \in Handles : UserCreate(c, h)
    \/ \E c \in UserCalls, f \in {"none", "sign"} : UserSign(c, f)
    \/ \E c \in UserCalls : UserStorage(c)

SpecUsers == Init /\ [][NextUsers]_vars

\* ------------------------------------------------------------------ branches
\* NamespacedRef::head(urn.id, remote, name)
HeadRef(urn, remote, name) == [urn |-> urn, remote |-> remote, name |-> name]

\* A push of the default branch from a working copy through the local
\* transport State::new registers: the head appears in the local namespace.
LocalPush(urn) ==
    /\ HasUrn(urn)
    /\ heads' = heads \cup {HeadRef(urn, NoPeer, Metadata(urn).default_branch)}
    /\ last' = [NoCall EXCEPT !.op = "push", !.urn = urn, !.ok = TRUE]
    /\ UNCHANGED <<metadata, radSelf, defaultSelf, dirs, trackedRel, replicated,
                   include, created, calls, requests, registry>>

\* State::get_branch with a given branch name: the local peer id as remote
\* means no remote; `fault` is what storage.has_ref fails with, if it does.
NormalizeNot(remote) == remote
Normalize(remote) == IF remote = LocalPeerId THEN NoPeer ELSE remote

GetBranch(urn, remote, name, fault) ==
    LET reference == HeadRef(urn, Normalize(remote), name)
    IN IF fault # NoErr THEN ErrRef(fault)
       ELSE IF reference \in heads THEN OkRef(reference)
       ELSE ErrRef(MissingRef(reference))

\* Result::or
OrPreferSecond(a, b) == IF b.ok THEN b ELSE a
Or(a, b) == IF a.ok THEN a ELSE b

\* The match on owner.or(peer) in find_default_branch.
MapResultVerbatim(r, project, urn) == r
MapResult(r, project, urn) ==
    IF r.ok THEN r
    ELSE IF r.err.kind = "MissingRef" THEN ErrRef(NoDefaultBranch(project.name, urn))
    ELSE r

StorageFaults(tag) == {NoErr, Err(tag)}

\* State::find_default_branch
FindDefaultBranch(urn, fault, ownerFault, peerFault) ==
    LET resolved == fault = "none" /\ HasUrn(urn)
        project == Metadata(urn)
        owner == GetBranch(urn, NoPeer, project.default_branch, ownerFault)
        peer == GetBranch(urn, project.key, project.default_branch, peerFault)
        r == IF resolved THEN MapResult(Or(owner, peer), project, urn)
             ELSE ErrRef(Err("Storage"))
    IN /\ last' = [NoCall EXCEPT !.op = "find_default_branch", !.urn = urn,
                                 !.fault = fault, !.ok = r.ok, !.ref = r.ref,
                                 !.err = r.err, !.existed = resolved,
                                 !.owner = IF resolved THEN owner ELSE ErrRef(NoErr),
                                 !.first = IF resolved THEN peer ELSE ErrRef(NoErr)]
       /\ UNCHANGED <<metadata, radSelf, defaultSelf, dirs, trackedRel, replicated,
                      heads, include, created, calls, requests, registry>>

\* State::get_project: storage.metadata_of(urn, None) as a project.
GetProject(urn, fault) ==
    IF fault = "storage" \/ ~HasUrn(urn) THEN Err("Storage")
    ELSE IF Metadata(urn).kind # "project" THEN Err("Storage")
    ELSE NoErr

\* Option<String>::None for the branch name, and the names a caller passes.
NoName == ""
BranchNames == {NoName, "main", "dev"}

\* State::get_branch: an absent name is the default branch of the project
\* get_project resolves; `fault` is what get_project fails with, `refFault`
\* what storage.has_ref fails with.
GetBranchOf(urn, remote, name, fault, refFault) ==
    IF name = NoName
    THEN (IF GetProject(urn, fault) # NoErr THEN ErrRef(GetProject(urn, fault))
          ELSE GetBranch(urn, remote, Metadata(urn).default_branch, refFault))
    ELSE GetBranch(urn, remote, name, refFault)

GetBranchCall(urn, remote, name, fault, refFault) ==
    LET r == GetBranchOf(urn, remote, name, fault, refFault)
    IN /\ last' = [NoCall EXCEPT !.op = "get_branch", !.urn = urn, !.peer = remote,
                                 !.name = name, !.fault = fault, !.ok = r.ok,
                                 !.ref = r.ref, !.err = r.err,
                                 !.first = ErrRef(refFault)]
       /\ UNCHANGED <<metadata, radSelf, defaultSelf, dirs, trackedRel, replicated,
                      heads, include, created, calls, requests, registry>>

\* The projects branch resolution is exercised on: one created here (its
\* first key is the local peer's), one cloned (its first key is peer 1's).
BranchUrns == {ProjectUrn(UserUrn(1), 1), RemoteUrn}

NextBranch ==
    \/ InitOwner(1, "none")
    \/ InitProject(UserUrn(1), [kind |-> "New", name |-> 1], "none")
    \/ \E b \in BOOLEAN : CloneProject(b, "none")
    \/ \E p \in RemotePeers : Fetch(RemoteUrn, p, TRUE, "none")
    \/ \E u \in BranchUrns : LocalPush(u)
    \/ \E u \in BranchUrns, f \in {"none", "storage"},
          fo \in StorageFaults("Storage(local lookup)"),
          fp \in StorageFaults("Storage(peer lookup)") :
          FindDefaultBranch(u, f, fo, fp)
    \/ \E u \in BranchUrns, p \in {NoPeer, LocalPeerId} \cup RemotePeers,
          n \in BranchNames, f \in {"none", "storage"},
          fr \in StorageFaults("Storage(has_ref)") :
          GetBranchCall(u, p, n, f, fr)

SpecBranch == Init /\ [][NextBranch]_vars

\* ------------------------------------------------------------------ peers
\* project.maintainers(): the user the project was built for.
MaintainersNone(project) == {}
Maintainers(project) == {project.owner}

\* storage.rad_signed_refs(urn).heads / rad_signed_refs_of(urn, peer).heads
HeadsOf(urn, remote) == {r \in heads : r.urn = urn /\ r.remote = remote}

\* project::Peer::Remote / project::Peer::Local
RemotePeer(peer_id, status) == [kind |-> "Remote", peer_id |-> peer_id, status |-> status]
LocalPeer(peer_id, status) == [kind |-> "Local", peer_id |-> peer_id, status |-> status]

\* State::tracked: get_project, then the Remote entries built under the store.
TrackedErr(urn, fault) ==
    IF GetProject(urn, IF fault = "project" THEN "storage" ELSE "none") # NoErr
    THEN [at |-> "get_project", err |-> Err("Storage")]
    ELSE IF fault = "tracked" THEN [at |-> "tracked", err |-> Err("Storage")]
    ELSE [at |-> "done", err |-> NoErr]

TrackedOf(urn) ==
    LET t == TrackedIn(urn, trackedRel, replicated)
    IN [i \in 1..Len(t) |-> RemotePeer(t[i].peer_id, t[i].status)]

Tracked(urn, fault) ==
    LET r == TrackedErr(urn, fault)
    IN /\ last' = [NoCall EXCEPT !.op = "tracked", !.urn = urn, !.fault = fault,
                                 !.ok = (r.err = NoErr), !.err = r.err,
                                 !.seq = IF r.err = NoErr THEN TrackedOf(urn) ELSE <<>>]
       /\ UNCHANGED <<metadata, radSelf, defaultSelf, dirs, trackedRel, replicated,
                      heads, include, created, calls, requests, registry>>

\* The status of the Local entry of list_project_peers: the if / else if / else
\* on refs.heads.is_empty() and project.maintainers().contains(&owner.urn()).
LocalStatusMaintainerFirst(urn, owner) ==
    [replicated |-> TRUE,
     role |-> IF owner \in Maintainers(Metadata(urn)) THEN "Maintainer"
              ELSE IF HeadsOf(urn, NoPeer) = {} THEN "Tracker"
              ELSE "Contributor",
     user |-> owner]

LocalStatus(urn, owner) ==
    [replicated |-> TRUE,
     role |-> IF HeadsOf(urn, NoPeer) = {} THEN "Tracker"
              ELSE IF owner \in Maintainers(Metadata(urn)) THEN "Maintainer"
              ELSE "Contributor",
     user |-> owner]

\* peers.push(Local); peers.append(&mut remotes)
PeersLocalLast(local, remotes) == remotes \o <<local>>
Peers(local, remotes) == <<local>> \o remotes

PeersFaults == {"none", "project", "refs", "tracked"}

\* State::list_project_peers: get_project, default_owner (expect),
\* list_owner_project_refs, the Local entry, tracked.
ListProjectPeersErrOwnerFirst(urn, fault) ==
    IF defaultSelf = NoUrn THEN [at |-> "default_owner", err |-> Err("Fatal")]
    ELSE IF GetProject(urn, IF fault = "project" THEN "storage" ELSE "none") # NoErr
    THEN [at |-> "get_project", err |-> Err("Storage")]
    ELSE IF fault = "refs" THEN [at |-> "refs", err |-> Err("Storage")]
    ELSE IF TrackedErr(urn, fault).err # NoErr
         THEN [at |-> "tracked", err |-> TrackedErr(urn, fault).err]
    ELSE [at |-> "done", err |-> NoErr]

ListProjectPeersErr(urn, fault) ==
    IF GetProject(urn, IF fault = "project" THEN "storage" ELSE "none") # NoErr
    THEN [at |-> "get_project", err |-> Err("Storage")]
    ELSE IF defaultSelf = NoUrn THEN [at |-> "default_owner", err |-> Err("Fatal")]
    ELSE IF fault = "refs" THEN [at |-> "refs", err |-> Err("Storage")]
    ELSE IF TrackedErr(urn, fault).err # NoErr
         THEN [at |-> "tracked", err |-> TrackedErr(urn, fault).err]
    ELSE [at |-> "done", err |-> NoErr]

ListProjectPeers(urn, fault) ==
    LET r == ListProjectPeersErr(urn, fault)
    IN /\ last' = [NoCall EXCEPT !.op = "list_project_peers", !.urn = urn,
                                 !.fault = fault, !.ok = (r.err = NoErr),
                                 !.fatal = (r.err = Err("Fatal")), !.err = r.err,
                                 !.existed = HasUrn(urn), !.at = r.at,
                                 !.seq = IF r.err = NoErr
                                         THEN Peers(LocalPeer(LocalPeerId,
                                                              LocalStatus(urn, defaultSelf)),
                                                    TrackedOf(urn))
                                         ELSE <<>>]
       /\ UNCHANGED <<metadata, radSelf, defaultSelf, dirs, trackedRel, replicated,
                      heads, include, created, calls, requests, registry>>

\* The projects the peer listings are exercised on: one created here for the
\* default owner, and the cloned one, whose remotes are tracked and fetched.
PeersUrns == {ProjectUrn(UserUrn(1), 1), RemoteUrn}

NextPeers ==
    \/ InitUser(1, "none")
    \/ InitOwner(1, "none")
    \/ InitProject(UserUrn(1), [kind |-> "New", name |-> 1], "none")
    \/ CloneProject(FALSE, "none")
    \/ \E p \in RemotePeers, b \in BOOLEAN : Fetch(RemoteUrn, p, b, "none")
    \/ \E p \in RemotePeers : Track(RemoteUrn, p, "none")
    \/ \E u \in PeersUrns : LocalPush(u)
    \/ \E u \in PeersUrns, f \in {"none", "project", "tracked"} : Tracked(u, f)
    \/ \E u \in PeersUrns, f \in PeersFaults : ListProjectPeers(u, f)

SpecPeers == Init /\ [][NextPeers]_vars

\* ------------------------------------------------------------------ enumerations
\* The sets of entries that one enumeration fails to read: none, or one.
BadSets == {{}} \cup {{u} : u \in StoredUrns}

\* The enumerations over a store with users, projects of both users, and a
\* cloned project whose rad/self is missing when it was cloned ownerless.
NextList ==
    \/ \E h \in Handles : InitUser(h, "none")
    \/ \E h \in Handles : InitOwner(h, "none")
    \/ \E o \in UserUrns : InitProject(o, [kind |-> "New", name |-> 1], "none")
    \/ CloneProject(FALSE, "none")
    \/ \E f \in {"none", "storage"}, bad \in BadSets : ListProjects(f, bad)
    \/ \E f \in {"none", "storage"}, bad \in BadSets : ListUsers(f, bad)

SpecList == Init /\ [][NextList]_vars

\* ------------------------------------------------------------------ project requests
\* The handlers of http/project/request.rs over the peer control's request
\* store: one request per urn, created by request_project, marked cancelled
\* by cancel_project_request.
MaxInstant == 2
Instants == 1..MaxInstant
RequestUrns == {RemoteUrn, ProjectUrn(UserUrn(1), 1)}

\* Instant::now(): a monotonic clock, never behind a timestamp already taken.
Now == {t \in Instants : \A u \in ProjectUrns : requests[u].timestamp <= t}

\* StatusCode::NO_CONTENT, StatusCode::OK.
NO_CONTENT == 204
OK == 200

\* peer_control.request_project: the request already held for the urn, or a
\* new one created at the timestamp; and the store it leaves.
RequestProject(urn, timestamp) ==
    IF requests[urn] = NoRequest
    THEN [urn |-> urn, state |-> "Created", timestamp |-> timestamp]
    ELSE requests[urn]

RequestProjectStore(urn, timestamp) ==
    [requests EXCEPT ![urn] = IF @ = NoRequest
                              THEN [urn |-> urn, state |-> "Created",
                                    timestamp |-> timestamp]
                              ELSE @]

\* peer_control.get_project_request, get_project_requests.
GetProjectRequest(urn) == requests[urn]
GetProjectRequests == {requests[u] : u \in {v \in ProjectUrns : requests[v] # NoRequest}}

\* peer_control.cancel_project_request: fails when no request is held for the
\* urn or the waiting room refuses the transition.
RequestFaults == {"none", "cancel"}

CancelProjectRequestErr(urn, fault) ==
    IF requests[urn] = NoRequest THEN Err("MissingUrn")
    ELSE IF fault = "cancel" THEN Err("StateMismatch")
    ELSE NoErr

CancelProjectRequestStore(urn, timestamp, fault) ==
    IF CancelProjectRequestErr(urn, fault) # NoErr THEN requests
    ELSE [requests EXCEPT ![urn] = [@ EXCEPT !.state = "Cancelled",
                                             !.timestamp = timestamp]]

\* handler::create: replies with the request as JSON, whatever it is.
CreateReplyCreated(request) ==
    [status |-> IF request.state = "Created" THEN 201 ELSE OK, body |-> request]
CreateReply(request) == [status |-> OK, body |-> request]

\* handler::list.
ListReply(list) == [status |-> OK, list |-> list]

\* handler::cancel: the error of the peer control leaves through `?` as a
\* rejection; only a cancelled request is answered 204.
CancelReplyAlways(e) == [status |-> NO_CONTENT, ok |-> TRUE, err |-> NoErr]
CancelReply(e) ==
    IF e = NoErr THEN [status |-> NO_CONTENT, ok |-> TRUE, err |-> NoErr]
    ELSE [status |-> 0, ok |-> FALSE, err |-> e]

\* PUT /<urn>
Create(urn, timestamp) ==
    LET r == CreateReply(RequestProject(urn, timestamp))
    IN /\ timestamp \in Now
       /\ requests' = RequestProjectStore(urn, timestamp)
       /\ last' = [NoCall EXCEPT !.op = "PUT", !.urn = urn, !.ok = TRUE,
                                 !.status = r.status, !.body = r.body,
                                 !.existed = (requests[urn] # NoRequest)]
       /\ UNCHANGED <<metadata, radSelf, defaultSelf, dirs, trackedRel, replicated,
                      heads, include, created, calls, registry>>

\* GET /
List ==
    LET r == ListReply(GetProjectRequests)
    IN /\ last' = [NoCall EXCEPT !.op = "GET", !.ok = TRUE,
                                 !.status = r.status, !.list = r.list]
       /\ UNCHANGED <<metadata, radSelf, defaultSelf, dirs, trackedRel, replicated,
                      heads, include, created, calls, requests, registry>>

\* DELETE /<urn>
Cancel(urn, timestamp, fault) ==
    LET r == CancelReply(CancelProjectRequestErr(urn, fault))
    IN /\ timestamp \in Now
       /\ requests' = CancelProjectRequestStore(urn, timestamp, fault)
       /\ last' = [NoCall EXCEPT !.op = "DELETE", !.urn = urn, !.fault = fault,
                                 !.ok = r.ok, !.err = r.err, !.status = r.status,
                                 !.body = requests[urn],
                                 !.existed = (requests[urn] # NoRequest)]
       /\ UNCHANGED <<metadata, radSelf, defaultSelf, dirs, trackedRel, replicated,
                      heads, include, created, calls, registry>>

NextRequest ==
    \/ \E u \in RequestUrns, t \in Instants : Create(u, t)
    \/ List
    \/ \E u \in RequestUrns, t \in Instants, f \in RequestFaults : Cancel(u, t, f)

SpecRequest == Init /\ [][NextRequest]_vars

\* ------------------------------------------------------------------ construction
\* State::new run again in the same process, and calls on a State that
\* exists.
MaxStates == 3

New ==
    /\ registry.states < MaxStates
    /\ registry' = StateNew(registry)
    /\ last' = [NoCall EXCEPT !.op = "new", !.ok = TRUE]
    /\ UNCHANGED <<metadata, radSelf, defaultSelf, dirs, trackedRel, replicated,
                   heads, include, created, calls, requests>>

NextNew ==
    \/ New
    \/ /\ registry.states > 0
       /\ \/ \E h \in Handles, f \in {"none", "sign"} : InitUser(h, f)
          \/ \E h \in Handles : InitOwner(h, "none")
          \/ \E f \in {"none", "storage"} : ListProjects(f, {})

SpecNew == InitProcess /\ [][NextNew]_vars

\* ------------------------------------------------------------------ default owner
\* State::default_owner: storage.default_rad_self() with its error logged and
\* turned into None by .ok(), and the error of with_storage dropped by the
\* outer .ok().flatten(). The call has no error to return.
OwnerReadFaults == {"none", "rad_self", "with_storage"}

DefaultOwnerPropagates(fault) ==
    IF fault # "none" \/ defaultSelf = NoUrn
    THEN [ok |-> FALSE, urn |-> NoUrn, err |-> Err("Storage")]
    ELSE [ok |-> TRUE, urn |-> defaultSelf, err |-> NoErr]

DefaultOwnerResult(fault) ==
    [ok |-> TRUE, urn |-> IF fault = "none" THEN defaultSelf ELSE NoUrn,
     err |-> NoErr]

DefaultOwner(fault) ==
    LET r == DefaultOwnerResult(fault)
    IN /\ last' = [NoCall EXCEPT !.op = "default_owner", !.fault = fault,
                                 !.ok = r.ok, !.err = r.err, !.urn = r.urn,
                                 !.flag = (r.urn # NoUrn)]
       /\ UNCHANGED <<metadata, radSelf, defaultSelf, dirs, trackedRel, replicated,
                      heads, include, created, calls, requests, registry>>

\* The two readers of the default owner, over stores with and without users,
\* projects and a default owner.
NextOwner ==
    \/ \E h \in Handles : InitUser(h, "none")
    \/ \E h \in Handles, f \in {"none", "verify", "set_owner"} : InitOwner(h, f)
    \/ \E o \in UserUrns, c \in Creates : InitProject(o, c, "none")
    \/ \E f \in OwnerReadFaults : DefaultOwner(f)
    \/ \E f \in {"none", "storage"} : ListProjects(f, {})

SpecOwner == Init /\ [][NextOwner]_vars

\* ------------------------------------------------------------------ specification
\* Identity creation and listing, with the failures that leave a call half
\* done: a signer that fails, a user that does not verify, a repository that
\* cannot be set up, an include file that cannot be saved.
Next ==
    \/ \E h \in Handles, f \in {"none", "sign"} : InitUser(h, f)
    \/ \E h \in Handles, f \in {"none", "verify"} : InitOwner(h, f)
    \/ \E o \in UserUrns, c \in Creates, f \in {"none", "setup", "include"} :
          InitProject(o, c, f)
    \/ \E f \in {"none", "storage"} : ListProjects(f, {})

Spec == Init /\ [][Next]_vars

\* ------------------------------------------------------------------ claims
StoredUser(h) == CHOOSE d \in metadata : d.kind = "user" /\ d.name = h
HasUser(h) == \E d \in metadata : d.kind = "user" /\ d.name = h

\* C1: with no user stored for handle h, init_user(h) / init_owner(h) succeeds
\* (signer and store working) and stores the user; once a user is stored for
\* h, every init_user(h) fails and leaves the stored documents unchanged, and
\* (signer and store working) the error is AlreadyExists carrying the urn of
\* the user the first call stored.
C1_InitUserTwice ==
    [][\A h \in Handles :
        /\ (/\ last'.op \in {"init_user", "init_owner"}
            /\ last'.h = h
            /\ last'.fault = "none"
            /\ ~HasUser(h))
           => (last'.ok /\ HasUser(h)' /\ last'.urn = StoredUser(h)'.urn)
        /\ (last'.op = "init_user" /\ last'.h = h /\ HasUser(h))
           => /\ ~last'.ok
              /\ metadata' = metadata
              /\ last'.fault = "none" => last'.err = AlreadyExists(StoredUser(h).urn)
      ]_vars

C1_Witness ==
    /\ last.op = "init_user"
    /\ last.existed
    /\ last.err.kind = "AlreadyExists"
    /\ last.err.urn = UserUrn(last.h)

\* C2 as stated: once init_project(owner, p) has succeeded, a second
\* init_project with the same owner and name fails with AlreadyExists(p.urn)
\* (signer and store working), writes no include file and announces nothing.
C2_Original ==
    (last.op = "init_project" /\ last.existed /\ last.urn \in created
       /\ last.fault \notin {"sign", "storage"})
    => (last.err = AlreadyExists(last.urn) /\ last.writes = 0 /\ last.announces = 0)

\* C2 amended: the second call always fails, writes no include file and
\* announces nothing; it fails with AlreadyExists(p.urn) when it names the
\* repository as Existing, and with the validation error when it repeats New,
\* because validate runs before create_repo.
C2_InitProjectTwice ==
    (last.op = "init_project" /\ last.existed /\ last.urn \in created)
    => /\ ~last.ok
       /\ last.writes = 0
       /\ last.announces = 0
       /\ last.fault \notin {"sign", "storage"}
          => /\ last.create = "Existing" => last.err = AlreadyExists(last.urn)
             /\ last.create = "New" => last.err = Err("Validation")

C2_Witness ==
    /\ last.op = "init_project"
    /\ last.urn \in created
    /\ last.create = "Existing"
    /\ last.err = AlreadyExists(last.urn)

\* C3: a successful list_projects returns exactly the stored projects that
\* were created for the current default owner: each of them, no project
\* created for another identity, and no user document.
C3_ListProjects ==
    (last.op = "list_projects" /\ last.ok)
    => /\ last.urns = {d.urn : d \in {x \in metadata :
                          x.kind = "project" /\ x.owner = defaultSelf}}
       /\ \A u \in created : Metadata(u).owner = defaultSelf => u \in last.urns
       /\ last.urns \cap UserUrns = {}

C3_Witness ==
    /\ last.op = "list_projects"
    /\ last.ok
    /\ last.urns # {}
    /\ \E d \in metadata : d.kind = "project" /\ d.owner # defaultSelf
    /\ \E u \in created : u \notin last.urns

\* C4: untrack of a pair that is not tracked changes neither the tracking
\* relation nor any include file (no rebuild, no write), and with the store
\* working it returns Ok(false).
C4_UntrackUntracked ==
    [][(last'.op = "untrack" /\ <<last'.urn, last'.peer>> \notin trackedRel)
       => /\ trackedRel' = trackedRel
          /\ include' = include
          /\ last'.rebuilds = 0 /\ last'.writes = 0
          /\ ~last'.flag
          /\ last'.fault # "storage" => last'.ok
      ]_vars

C4_Witness ==
    /\ last.op = "untrack"
    /\ ~last.existed
    /\ last.ok /\ ~last.flag
    /\ include[last.urn].exists
    /\ TrackedPeers(last.urn) # {}

\* C5: untrack of a tracked pair removes the pair unless the store fails, and
\* whenever it returns successfully it returns true and the include file of
\* the project exists and has no entry for the peer.
C5_UntrackTracked ==
    (last.op = "untrack" /\ last.existed)
    => /\ last.fault # "storage" => <<last.urn, last.peer>> \notin trackedRel
       /\ last.ok => /\ last.flag
                     /\ <<last.urn, last.peer>> \notin trackedRel
                     /\ include[last.urn].exists
                     /\ last.peer \notin include[last.urn].peers

C5_Witness ==
    /\ last.op = "untrack"
    /\ last.existed /\ last.ok /\ last.flag
    /\ <<last.urn, last.peer>> \in replicated
    /\ last.pre.stage = 0
    /\ include[last.urn].peers # {}

RoundTrip ==
    /\ last.op = "untrack" /\ last.ok
    /\ last.pre.stage = 2
    /\ last.pre.fresh

\* C6 as stated: a successful track of a new peer followed at once by a
\* successful untrack of it leaves the tracking relation and the include
\* file as they were before the track.
C6_Original ==
    RoundTrip => (trackedRel = last.pre.rel /\ include[last.urn] = last.pre.file)

\* C6 amended: the pair restores the tracking relation; the include file then
\* exists and lists the tracked and replicated peers, which is its content
\* from before the track only if it existed and was up to date then.
C6_RoundTrip ==
    RoundTrip
    => /\ trackedRel = last.pre.rel
       /\ include[last.urn] = last.pre.expect
       /\ include[last.urn] = IncludeContent(last.urn, trackedRel, replicated)
       /\ last.pre.file = last.pre.expect => include[last.urn] = last.pre.file

C6_Witness ==
    /\ RoundTrip
    /\ last.pre.file = last.pre.expect
    /\ last.pre.file.peers # {}

\* C7: track of an already tracked pair leaves the tracking relation as it
\* is and, unless the store fails, issues one gossip query and one rebuild
\* of the include file, which a successful call has saved.
C7_TrackTracked ==
    [][(last'.op = "track" /\ <<last'.urn, last'.peer>> \in trackedRel)
       => /\ trackedRel' = trackedRel
          /\ last'.fault # "storage"
             => /\ last'.queries = 1
                /\ last'.rebuilds = 1
                /\ last'.ok => /\ last'.writes = 1
                               /\ include'[last'.urn] =
                                    IncludeContent(last'.urn, trackedRel', replicated')
      ]_vars

C7_Witness ==
    /\ last.op = "track"
    /\ last.existed /\ last.ok
    /\ last.queries = 1 /\ last.writes = 1
    /\ include[last.urn] # last.pre.file

LocalRef(urn) == HeadRef(urn, NoPeer, Metadata(urn).default_branch)
FirstPeerRef(urn) == HeadRef(urn, Metadata(urn).key, Metadata(urn).default_branch)
Resolved == last.op = "find_default_branch" /\ last.existed

\* C8: for a resolved project whose local lookup reads the store without
\* failure: if the default branch exists in the local namespace the result
\* is that local reference, whatever the first peer's lookup gives; if it
\* does not, and the first peer's lookup finds the branch under that peer,
\* the result is the reference scoped to the peer.
C8_PreferLocal ==
    (Resolved /\ last.owner.err.kind \in {"none", "MissingRef"})
    => /\ LocalRef(last.urn) \in heads
          => (last.ok /\ last.ref = LocalRef(last.urn))
       /\ (LocalRef(last.urn) \notin heads /\ FirstPeerRef(last.urn) \in heads
             /\ last.first.err.kind \in {"none", "MissingRef"})
          => (last.ok /\ last.ref = FirstPeerRef(last.urn)
                /\ last.ref.remote = Metadata(last.urn).key)

C8_Witness ==
    /\ Resolved /\ last.ok
    /\ LocalRef(last.urn) \notin heads
    /\ last.ref = FirstPeerRef(last.urn)
    /\ last.ref.remote = 1

\* C9: when both lookups fail with MissingRef the result is
\* NoDefaultBranch with the project's name and the requested urn, and no
\* call ever returns MissingRef.
C9_NoDefaultBranch ==
    last.op = "find_default_branch"
    => /\ last.err.kind # "MissingRef"
       /\ (Resolved /\ last.owner.err.kind = "MissingRef"
             /\ last.first.err.kind = "MissingRef")
          => (~last.ok
                /\ last.err = NoDefaultBranch(Metadata(last.urn).name, last.urn))

C9_Witness ==
    /\ Resolved
    /\ last.owner.err.kind = "MissingRef"
    /\ last.first.err.kind = "MissingRef"
    /\ last.first.err.ref.remote = 1
    /\ last.err.kind = "NoDefaultBranch"

\* C10 as stated: an error other than MissingRef from the local lookup is
\* the result of the call, and so is one from the first peer's lookup when
\* the local lookup gave MissingRef.
C10_Original ==
    Resolved
    => /\ last.owner.err.kind \notin {"none", "MissingRef"}
          => (~last.ok /\ last.err = last.owner.err)
       /\ (last.owner.err.kind = "MissingRef"
             /\ last.first.err.kind \notin {"none", "MissingRef"})
          => (~last.ok /\ last.err = last.first.err)

\* The reference get_branch looks up: the local peer id is no remote, an
\* absent name is the project's default branch.
Candidate ==
    HeadRef(last.urn,
            IF last.peer = LocalPeerId THEN NoPeer ELSE last.peer,
            IF last.name = NoName THEN Metadata(last.urn).default_branch
            ELSE last.name)
Looked == last.op = "get_branch" /\ (last.name = NoName => HasUrn(last.urn))

\* C11: get_branch returns Ok(reference) only for the candidate reference and
\* only if the store holds it; when the store reports the candidate absent the
\* call fails with MissingRef carrying the candidate; a call with the local
\* peer id as remote returns what the call with no remote returns; an absent
\* name stands for the project's default branch.
C11_GetBranch ==
    last.op = "get_branch"
    => /\ last.ok => (HasUrn(last.urn) \/ last.name # NoName)
       /\ last.ok => (last.ref = Candidate /\ last.ref \in heads)
       /\ (Looked /\ last.fault = "none" /\ last.first.err = NoErr)
          => /\ Candidate \in heads => (last.ok /\ last.ref = Candidate)
             /\ Candidate \notin heads
                => (~last.ok /\ last.err = MissingRef(Candidate))
       /\ last.peer = LocalPeerId
          => [ok |-> last.ok, ref |-> last.ref, err |-> last.err]
               = GetBranchOf(last.urn, NoPeer, last.name, last.fault, last.first.err)
       /\ (last.name = NoName /\ HasUrn(last.urn) /\ last.fault = "none")
          => [ok |-> last.ok, ref |-> last.ref, err |-> last.err]
               = GetBranchOf(last.urn, last.peer, Metadata(last.urn).default_branch,
                             last.fault, last.first.err)

C11_Witness ==
    /\ last.op = "get_branch"
    /\ last.peer = LocalPeerId
    /\ last.name = NoName
    /\ last.ok
    /\ last.ref = HeadRef(last.urn, NoPeer, "main")

\* C12: a successful list_project_peers has exactly one Local entry, which is
\* the first element and carries the local peer id; the elements after it are
\* the Remote entries of tracked(urn), in the same order, one per tracked peer.
C12_OneLocalFirst ==
    (last.op = "list_project_peers" /\ last.ok)
    => /\ Len(last.seq) = 1 + Cardinality(TrackedPeers(last.urn))
       /\ last.seq[1].kind = "Local"
       /\ last.seq[1].peer_id = LocalPeerId
       /\ \A i \in 2..Len(last.seq) : last.seq[i].kind = "Remote"
       /\ SubSeq(last.seq, 2, Len(last.seq)) = TrackedOf(last.urn)
       /\ {last.seq[i].peer_id : i \in 2..Len(last.seq)} = TrackedPeers(last.urn)

C12_Witness ==
    /\ last.op = "list_project_peers" /\ last.ok
    /\ Len(last.seq) = 3
    /\ last.seq[2].status.replicated # last.seq[3].status.replicated

\* C13: the Local entry of list_project_peers is Replicated, and its role is
\* Tracker if the store has no local branch head of the project; otherwise
\* Maintainer if the default owner is in the maintainer set; otherwise
\* Contributor.
C13_LocalRole ==
    (last.op = "list_project_peers" /\ last.ok)
    => /\ last.seq[1].status.replicated
       /\ last.seq[1].status.user = defaultSelf
       /\ (\A r \in heads : ~(r.urn = last.urn /\ r.remote = NoPeer))
          => last.seq[1].status.role = "Tracker"
       /\ (\E r \in heads : r.urn = last.urn /\ r.remote = NoPeer)
          => last.seq[1].status.role =
               IF defaultSelf = Metadata(last.urn).owner
               THEN "Maintainer" ELSE "Contributor"

C13_Witness ==
    /\ last.op = "list_project_peers" /\ last.ok
    /\ defaultSelf = Metadata(last.urn).owner
    /\ last.seq[1].status.role = "Tracker"

C15_Original ==
    (last.op = "tracked" /\ last.ok)
    => /\ Len(last.seq) = Cardinality(TrackedPeers(last.urn))
       /\ {last.seq[i].peer_id : i \in 1..Len(last.seq)} = TrackedPeers(last.urn)
       /\ \A i \in 1..Len(last.seq) :
            LET e == last.seq[i]
            IN /\ e.kind = "Remote"
               /\ e.status.replicated = (<<last.urn, e.peer_id>> \in replicated)
               /\ e.status.replicated
                  => e.status.role =
                       IF PeerUser(e.peer_id) = Metadata(last.urn).owner
                       THEN "Maintainer"
                       ELSE IF \A r \in heads :
                                 ~(r.urn = last.urn /\ r.remote = e.peer_id)
                       THEN "Tracker"
                       ELSE "Contributor"

\* C16 as stated: with the store open, list_users and list_projects return Ok
\* also when an entry of the metadata iteration cannot be read, with every
\* readable entry of their kind (for list_projects: of the default owner);
\* list_projects also skips an entry whose rad/self cannot be read.
C16_Original ==
    /\ (last.op = "list_users" /\ last.fault = "none")
       => (last.ok /\ last.urns = {d.urn : d \in {x \in metadata :
                                     x.kind = "user" /\ x.urn \notin last.bad}})
    /\ (last.op = "list_projects" /\ last.fault = "none" /\ defaultSelf # NoUrn)
       => (last.ok /\ last.urns = {d.urn : d \in {x \in metadata :
                                     /\ x.kind = "project"
                                     /\ x.urn \notin last.bad
                                     /\ radSelf[x.urn] = defaultSelf}})

ReplicatedPeers(urn) == {p \in RemotePeers : <<urn, p>> \in replicated}

C19_FetchFrame ==
    [][last'.op = "fetch"
       => /\ trackedRel' = trackedRel
          /\ include' = include
          /\ last'.rebuilds = 0 /\ last'.writes = 0
      ]_vars

C19_Witness ==
    /\ last.op = "fetch" /\ last.ok
    /\ include[last.urn].exists
    /\ <<last.urn, last.peer>> \in trackedRel
    /\ last.peer \notin include[last.urn].peers

\* C18 as stated: with track and untrack calls interleaved, every save of the
\* include file writes the peers that are tracked and replicated in the store
\* at the moment of the save, and once every call has returned after a save
\* the file agrees with the tracking relation.
C18_Original ==
    last.op = "update_include.save"
    => include[last.urn].peers = TrackedPeers(last.urn) \cap ReplicatedPeers(last.urn)

\* C20 as stated: a call of init_user, init_owner or init_project that returns
\* a signing or a verification error leaves the stored identity documents and
\* the default owner as they were; in particular init_owner(h) failing at
\* verification stores no user for h.
C20_Original ==
    [][(last'.op \in {"init_user", "init_owner", "init_project"}
          /\ last'.err.kind \in {"Sign", "Verification"})
       => /\ metadata' = metadata
          /\ defaultSelf' = defaultSelf
          /\ \A h \in Handles :
                (last'.op = "init_owner" /\ last'.h = h /\ ~HasUser(h))
                => ~HasUser(h)'
      ]_vars

\* C21: when the wait for the transport results times out, init_project and
\* checkout return what they return when every task finished in time: Ok if
\* the other steps succeed, never the fatal state or a transport error, and
\* the steps after the wait (for init_project: the include file, the
\* announcement) still run.
C21_TimeoutIsOk ==
    [][/\ \A c \in Creates, h \in Handles :
            (last'.op = "init_project" /\ last'.fault = "timeout"
               /\ last'.h = h /\ last'.create = c.kind
               /\ last'.urn = ProjectUrn(UserUrn(h), c.name))
            => /\ last'.err = InitProjectErr(UserUrn(h), c, "none").err
               /\ last'.at = InitProjectErr(UserUrn(h), c, "none").at
       /\ \A u \in ProjectUrns, p \in {NoPeer} \cup RemotePeers :
            (last'.op = "checkout" /\ last'.fault = "timeout"
               /\ last'.urn = u /\ last'.peer = p)
            => /\ last'.err = CheckoutErr(u, p, "none").err
               /\ last'.at = CheckoutErr(u, p, "none").at
       /\ (last'.op \in {"init_project", "checkout"} /\ last'.fault = "timeout")
          => /\ ~last'.fatal
             /\ last'.err.kind \notin {"Fatal", "Transport"}
             /\ last'.at # "transport"
      ]_vars

C21_Witness ==
    /\ last.op = "checkout" /\ last.fault = "timeout"
    /\ last.ok /\ last.at = "done"
    /\ last.peer = 1
    /\ last.steps = CheckoutSteps

\* C22 as stated: a transport task that reports a failure within the wait,
\* by a panic or by an error result, puts init_project or checkout in the
\* fatal state.
C22_Original ==
    (last.op \in {"init_project", "checkout"} /\ last.at = "transport")
    => (last.fatal /\ ~last.ok)

\* C22 amended: a transport task that panicked puts the call in the fatal
\* state; one that finished with an error result makes the call return that
\* error as a typed error; neither is success, and init_project announces
\* nothing.
C22_TransportFailure ==
    /\ (last.op \in {"init_project", "checkout"} /\ last.at = "transport")
       => /\ ~last.ok
          /\ last.announces = 0
          /\ last.fault = "transport_panic" => (last.fatal /\ last.err = Err("Fatal"))
          /\ last.fault = "transport_err" => (~last.fatal /\ last.err = Err("Transport"))
          /\ last.fault \in {"transport_panic", "transport_err"}
    /\ (last.op \in {"init_project", "checkout"}
          /\ last.fault \in {"transport_panic", "transport_err"})
       => ~last.ok

C22_Witness ==
    /\ last.op = "init_project"
    /\ last.at = "transport"
    /\ last.fault = "transport_err"
    /\ last.err = Err("Transport")
    /\ HasUrn(last.urn)

\* C23: init_project announces the project at most once, as the last of its
\* steps and only in a call that returns Ok: the project is then stored, the
\* transport wait has run and the include file is saved; a call that stops at
\* signing, validation, create_repo, setup_repo, the transport results, the
\* include file or set_include_path announces nothing and is not Ok.
C23_AnnounceLast ==
    last.op = "init_project"
    => /\ last.announces \in {0, 1}
       /\ last.announces = 1 <=> last.ok
       /\ last.ok
          => /\ last.steps = InitProjectSteps
             /\ last.steps[Len(last.steps)] = "announce"
             /\ HasUrn(last.urn)
             /\ include[last.urn].exists
             /\ last.writes = 1
       /\ last.at \in {"sign", "validate", "create_repo", "setup_repo", "transport",
                       "update_include", "set_include_path"}
          => /\ last.announces = 0
             /\ ~last.ok /\ last.err # NoErr
             /\ \A i \in 1..Len(last.steps) : last.steps[i] # "announce"

C23_Witness ==
    /\ last.op = "init_project"
    /\ last.at = "set_include_path"
    /\ include[last.urn].exists
    /\ last.announces = 0

\* C24: in checkout the include file is saved before the working copy is
\* made, and the transport wait comes after it and before the return; the
\* ownership is Local(local peer id) iff no peer is given, and Remote with the
\* peer as remote, the local peer id as local and the handle of the peer's
\* rad/self iff one is; a checkout whose project does not resolve saves no
\* include file and makes no working copy.
C24_CheckoutOrder ==
    [][last'.op = "checkout"
       => /\ \E n \in 0..Len(CheckoutSteps) :
                last'.steps = SubSeq(CheckoutSteps, 1, n)
          /\ (\E i \in 1..Len(last'.steps) : last'.steps[i] = "run")
             => /\ last'.writes = 1
                /\ include'[last'.urn].exists
                /\ \E i, j \in 1..Len(last'.steps) :
                      /\ i < j
                      /\ last'.steps[i] = "update_include"
                      /\ last'.steps[j] = "run"
          /\ last'.ok
             => /\ last'.steps[Len(last'.steps) - 1] = "run"
                /\ last'.steps[Len(last'.steps)] = "transport"
          /\ last'.ownership # NoOwnership
             => /\ last'.ownership.kind = "Local" <=> last'.peer = NoPeer
                /\ last'.ownership.kind = "Remote" <=> last'.peer # NoPeer
                /\ last'.ownership.local = LocalPeerId
                /\ last'.ownership.kind = "Remote"
                   => /\ last'.ownership.remote = last'.peer
                      /\ last'.ownership.handle = PeerUser(last'.peer).o
          /\ last'.ok => last'.ownership # NoOwnership
          /\ ~HasUrn(last'.urn) => last'.at = "get_project"
          /\ last'.at = "get_project"
             => /\ include' = include
                /\ last'.writes = 0 /\ last'.rebuilds = 0
                /\ last'.steps = <<>>
                /\ ~last'.ok
      ]_vars

C24_Witness ==
    /\ last.op = "checkout" /\ last.ok /\ last.fault = "none"
    /\ last.peer = 1
    /\ last.ownership.kind = "Remote"
    /\ last.ownership.remote = 1
    /\ include[last.urn].peers # {}

\* C25: list_project_peers of a stored project ends in the fatal state, with
\* no typed error, when no default owner is set; for a project the store does
\* not hold it returns a typed error and never the fatal state, whether or
\* not a default owner is set.
C25_NoOwnerIsFatal ==
    last.op = "list_project_peers"
    => /\ (HasUrn(last.urn) /\ defaultSelf = NoUrn /\ last.fault # "project")
          => (last.fatal /\ ~last.ok /\ last.err = Err("Fatal"))
       /\ ~HasUrn(last.urn)
          => (~last.fatal /\ ~last.ok /\ last.err = Err("Storage")
                /\ last.at = "get_project")
       /\ last.fatal => (defaultSelf = NoUrn /\ HasUrn(last.urn))

C25_Witness ==
    /\ last.op = "list_project_peers"
    /\ last.fatal
    /\ last.urn \in created
    /\ defaultSelf = NoUrn

\* C28: the steps of a track call are, in this order, storage.track, the
\* gossip query, the rebuild of the include file; a call whose storage.track
\* fails returns that error with no query and no rebuild, and leaves the
\* tracking relation and the include files as they were.
C28_TrackOrder ==
    [][last'.op = "track"
       => /\ last'.steps \in {<<>>, <<"track", "query">>,
                              <<"track", "query", "update_include">>}
          /\ last'.queries = (IF Len(last'.steps) >= 2 THEN 1 ELSE 0)
          /\ last'.rebuilds = 1 => last'.queries = 1
          /\ last'.queries = 1 => <<last'.urn, last'.peer>> \in trackedRel'
          /\ last'.ok => (Len(last'.steps) = 3 /\ last'.writes = 1)
          /\ last'.fault = "storage"
             => /\ ~last'.ok /\ last'.err = Err("Storage")
                /\ last'.steps = <<>>
                /\ last'.queries = 0 /\ last'.rebuilds = 0 /\ last'.writes = 0
                /\ trackedRel' = trackedRel
                /\ include' = include
      ]_vars

C28_Witness ==
    /\ last.op = "track" /\ last.fault = "storage"
    /\ ~last.ok /\ last.queries = 0
    /\ HasUrn(last.urn)
    /\ <<last.urn, last.peer>> \notin trackedRel

\* C30: a track call that fails in the rebuild of the include file (the
\* project does not resolve, or the file cannot be saved) has recorded the
\* pair and issued the gossip query, and returns the error with the pair
\* still tracked.
C30_TrackNotAtomic ==
    [][(last'.op = "track" /\ last'.at \in {"tracked", "save"})
       => /\ ~last'.ok /\ last'.err # NoErr
          /\ trackedRel' = trackedRel \cup {<<last'.urn, last'.peer>>}
          /\ last'.queries = 1
          /\ last'.writes = 0 /\ include' = include
          /\ last'.at = "tracked" <=> ~HasUrn(last'.urn)
      ]_vars

C30_Witness ==
    /\ last.op = "track" /\ last.at = "save"
    /\ ~last.ok
    /\ ~last.existed
    /\ <<last.urn, last.peer>> \in trackedRel
    /\ last.queries = 1


C26_WitnessList ==
    /\ last.op = "GET" /\ last.status = OK
    /\ \E u \in RequestUrns :
          last.list = {[urn |-> u, state |-> "Created", timestamp |-> 1]}

\* C27: DELETE /<urn> for a urn with a request that can be cancelled marks it
\* cancelled and replies 204; when cancel_project_request fails, the reply is
\* an error rejection, never 204, and the store is left as it was.
C27_Cancel ==
    [][last'.op = "DELETE"
       => /\ (last'.existed /\ last'.fault = "none")
             => /\ last'.status = NO_CONTENT /\ last'.ok
                /\ requests'[last'.urn].state = "Cancelled"
          /\ (~last'.existed \/ last'.fault # "none")
             => /\ ~last'.ok /\ last'.err # NoErr
                /\ last'.status # NO_CONTENT
                /\ requests' = requests
      ]_vars

C27_Witness ==
    /\ last.op = "DELETE" /\ last.existed /\ last.fault = "none"
    /\ last.body.state = "Created"
    /\ last.status = NO_CONTENT
    /\ requests[last.urn].state = "Cancelled"

C27_WitnessRejected ==
    /\ last.op = "DELETE" /\ ~last.ok
    /\ last.err = Err("MissingUrn")

\* C29: however many States are constructed in the process, the local
\* transport is registered at most once, exactly once as soon as one State
\* exists, and every call made on a State finds it registered.
C29_RegisteredOnce ==
    /\ [](/\ registry.registered <= 1
          /\ registry.states > 0 => registry.registered = 1
          /\ registry.calls = registry.states)
    /\ [][last'.op # "new" => registry.registered = 1 /\ registry' = registry]_vars

C29_Witness ==
    /\ registry.states = MaxStates
    /\ registry.calls > 1
    /\ registry.registered = 1
    /\ last.op = "init_user" /\ last.ok


\* C31: of the init_user calls for one handle that run at the same time and
\* reach the store, exactly one succeeds, every other one fails with
\* AlreadyExists naming the urn of that handle's user, and the store holds
\* exactly one user document for the handle.
Stored(h) ==
    {c \in UserCalls : /\ calls[c].op = "init_user" /\ calls[c].h = h
                       /\ calls[c].pc = "returned" /\ calls[c].err # Err("Sign")}

C31_OneInitUserWins ==
    \A h \in Handles :
        Stored(h) # {}
        => /\ Cardinality({c \in Stored(h) : calls[c].err = NoErr}) = 1
           /\ \A c \in Stored(h) :
                 calls[c].err # NoErr => calls[c].err = AlreadyExists(UserUrn(h))
           /\ Cardinality({d \in metadata : d.kind = "user" /\ d.name = h}) = 1
           /\ StoredUser(h).urn = UserUrn(h)

C31_Witness ==
    /\ \A c \in UserCalls : c \in Stored(1)
    /\ calls[2].err = NoErr
    /\ calls[1].err = AlreadyExists(UserUrn(1))
    /\ last.op = "init_user" /\ last.existed


\* C32: default_owner never fails: it returns the default owner when the
\* self-reference can be read and nothing otherwise, with no error; while
\* list_projects returns a storage error, and no list, whenever the
\* self-reference cannot be read, also over a store without projects.
C32_TwoReaders ==
    /\ last.op = "default_owner"
       => /\ last.ok /\ last.err = NoErr /\ ~last.fatal
          /\ last.urn = (IF last.fault = "none" THEN defaultSelf ELSE NoUrn)
          /\ last.flag <=> (last.fault = "none" /\ defaultSelf # NoUrn)
    /\ (last.op = "list_projects" /\ (last.fault = "storage" \/ defaultSelf = NoUrn))
       => /\ ~last.ok /\ last.err = Err("Storage")
          /\ last.urns = {}

C32_Witness ==
    /\ last.op = "list_projects" /\ last.fault = "none"
    /\ defaultSelf = NoUrn
    /\ ProjectsOnly(metadata) = {}
    /\ HasUser(1)
    /\ ~last.ok

C32_WitnessAbsent ==
    /\ last.op = "default_owner" /\ last.fault = "rad_self"
    /\ defaultSelf # NoUrn
    /\ last.ok /\ last.urn = NoUrn

=============================================================================
